---- MODULE Spec2Model ----
(***************************************************************************)
(* Request-state orchestration of alova: createRequestState                 *)
(* (src/src/functions/createRequestState.ts) together with the             *)
(* collaborators it drives: the ExecutionContext ("hook instance"), the    *)
(* ResponseCache, the debounce scheduler, the host state binding and the   *)
(* request attempt performed by useHookToSendRequest.                      *)
(*                                                                         *)
(* One logical hook usage site is modelled.  The host re-enters            *)
(* createRequestState on every evaluation cycle; `ref` hands back the same *)
(* ExecutionContext container on every entry.  Everything between two      *)
(* suspension points (transport call, asynchronous transform, timers) is   *)
(* one atomic action.                                                      *)
(*                                                                         *)
(* Values are modelled by name: "undefined" is JavaScript's undefined,     *)
(* "zero", "empty", "false", "null" are the falsy values 0, '', false and  *)
(* null, every other name is a truthy value.  Progress slots (downloading, *)
(* uploading) and managedStates are passive data and are left out.         *)
(***************************************************************************)
EXTENDS Integers, Sequences, FiniteSets, TLC

(***************************************************************************)
(* Bounds of the model.                                                    *)
(***************************************************************************)
\* calls made by the caller and the host: entries, registrations, sends,
\* updates, watched-input changes, state-callback registrations
MaxCalls == 4
\* request attempts started
MaxAttempts == 2
\* the clock stops here
MaxTime == 3

VARIABLES
  isSSR,      \* the execution context is non-interactive (server rendering)
  now,        \* the clock, in milliseconds
  cache,      \* ResponseCache: key -> entry
  hook,       \* the ExecutionContext (hookInstance)
  fs,         \* entry -> the state handle set (frontStates) that entry created
  effect,     \* the effect registered with the host (latest effectRequest call)
  mounted,    \* the host has run the first-entry effect
  timer,      \* entry -> the `timer` cell of that entry's debounce closure
  pending,    \* timers set and not yet fired or cleared
  att,        \* attempt -> record of one request attempt
  nCalls,     \* number of calls made by the caller and the host so far
  op          \* the operation performed by the last step, with its inputs

vars == <<isSSR, now, cache, hook, fs, effect, mounted, timer, pending, att,
          nCalls, op>>

\* number of orchestration entries so far; the current entry
nEntries == Len(fs)
\* number of attempts started so far
nAtt == Len(att)

(***************************************************************************)
(* Value domains.                                                          *)
(***************************************************************************)
Keys == {"K1", "K2"}
\* key(getHandlerMethod(methodHandler)) of the usage site's method
MethodKey == "K1"
Never == -1
FalsyVals == {"undefined", "zero", "empty", "false", "null"}
ResponseVals == {"obj", "zero"}
InitialData == "init"
TransportError == "neterr"
TransformError == "boom"
AbortError == "[alova]The user aborted a request."
ImmediateArgs == {"undefined", "true", "false"}
ForceArgs == {"undefined", "true", "false", "fnTrue", "fnFalse"}

\* JavaScript truthiness of a value (the `!x` / `if (x)` tests of the source)
Truthy(v) == v \notin FalsyVals

\* helper.sloughConfig: a function-valued config is called, a literal is kept
sloughConfig(c) ==
  CASE c = "fnTrue" -> "true"
    [] c = "fnFalse" -> "false"
    [] OTHER -> c

\* `x ?? y`: y only when x is null or undefined
Nullish(x, y) == IF x \in {"undefined", "null"} THEN y ELSE x

\* watchingStates / debounce argument pairs the entries are called with.
\* watching = -1: watchingStates not supplied; otherwise the number of inputs.
WatchConfigs ==
  { [watching |-> -1, kind |-> "scalar", d |-> 0, tbl |-> <<>>],
    [watching |-> 0,  kind |-> "scalar", d |-> 2, tbl |-> <<>>],
    [watching |-> 2,  kind |-> "scalar", d |-> 2, tbl |-> <<>>],
    [watching |-> 2,  kind |-> "table",  d |-> 0, tbl |-> <<1>>] }

\* cache TTL of the method with key k (Method.config.localCache)
MethodTTL(k) == IF k = "K1" THEN 2 ELSE 0

NoSettle == [kind |-> "none", val |-> "undefined", caught |-> FALSE]
\* a delay in milliseconds; def = FALSE stands for JavaScript's undefined
NoDelay == [def |-> TRUE, ms |-> 0]
\* the last operation: its name and inputs, the attempt or handler it acted
\* on (a) and the phase that attempt was in (from), the changed index and the
\* delay of a trigger (idx, dl), the patches of an update (p, hp), the handler
\* invocations it made (calls) and the promise it settled (settle)
NoOp == [name |-> "init", immArg |-> "undefined", force |-> "undefined",
         a |-> 0, from |-> "none", idx |-> -1, dl |-> NoDelay,
         p |-> {}, hp |-> {}, calls |-> <<>>, settle |-> NoSettle]
Op(n, a) == [NoOp EXCEPT !.name = n, !.a = a]

(***************************************************************************)
(* ResponseCache (storage/responseCache).                                  *)
(***************************************************************************)
NoEntry == [present |-> FALSE, val |-> "undefined", exp |-> Never]

Expired(ent, t) == ent.exp # Never /\ ent.exp <= t

\* getResponseCache: the cached value, or undefined when there is no entry or
\* the entry has expired
getResponseCache(c, k, t) ==
  IF c[k].present /\ ~Expired(c[k], t) THEN c[k].val ELSE "undefined"

\* the cache after a read of key k: an expired entry is removed by the read
cacheAfterGet(c, k, t) ==
  IF c[k].present /\ Expired(c[k], t) THEN [c EXCEPT ![k] = NoEntry] ELSE c

\* setResponseCache: a TTL of 0 stores nothing, Never stores for ever
setResponseCache(c, k, v, ttl, t) ==
  IF ttl = 0 THEN c
  ELSE [c EXCEPT ![k] = [present |-> TRUE, val |-> v,
                         exp |-> IF ttl = Never THEN Never ELSE t + ttl]]

(***************************************************************************)
(* createRequestState: the pure parts.                                     *)
(***************************************************************************)
\* mutant: the parameter defaults to true
defaultImmediateTrue(immArg) == IF immArg = "undefined" THEN "true" ELSE immArg

\* the default of the `immediate` parameter
defaultImmediate(immArg) == IF immArg = "undefined" THEN "false" ELSE immArg

\* mutant: loading is computed as if every entry fired immediately
initialLoadingEager(immediate, force, cachedResponse) ==
  Truthy(sloughConfig(Nullish(force, "false"))) \/ ~Truthy(cachedResponse)

\* mutant: the force setting is not looked at
initialLoadingNoForce(immediate, force, cachedResponse) ==
  Truthy(immediate) /\ ~Truthy(cachedResponse)

\* initialLoading, from the immediate flag, the force setting and the value
\* the cache lookup returned
initialLoading(immediate, force, cachedResponse) ==
  IF Truthy(immediate)
    THEN LET forceRequestFinally == sloughConfig(Nullish(force, "false"))
         IN  Truthy(forceRequestFinally) \/ ~Truthy(cachedResponse)
    ELSE FALSE

\* createHook: a fresh ExecutionContext
createHook == [fs |-> 0, sh |-> <<>>, eh |-> <<>>, ch |-> <<>>,
               rf |-> <<>>, sf |-> <<>>, c |-> 0, ar |-> 0]

\* refCurrent(ref(createHook(...))): the host's ref keeps the container of the
\* first entry
refCurrent(h, n) == IF n = 0 THEN createHook ELSE h

\* the per-entry reset of the ExecutionContext
\* mutant: the success handler list survives an entry
resetHookKeepSh(h, e) == [h EXCEPT !.fs = e, !.eh = <<>>, !.ch = <<>>, !.c = e]

\* mutant: the error handler list survives an entry
resetHookKeepEh(h, e) == [h EXCEPT !.fs = e, !.sh = <<>>, !.ch = <<>>, !.c = e]

\* mutant: the frontStates reference is bound by the first entry only
resetHookFirstFs(h, e) ==
  [h EXCEPT !.fs = IF @ = 0 THEN e ELSE @, !.sh = <<>>, !.eh = <<>>, !.ch = <<>>, !.c = e]

resetHook(h, e) ==
  [h EXCEPT !.fs = e, !.sh = <<>>, !.eh = <<>>, !.ch = <<>>, !.c = e]

\* mutant: an empty sequence of watched inputs counts as not supplied
hasWatchingStatesNonEmpty(w) == w.watching > 0

hasWatchingStates(w) == w.watching # -1

\* the `immediate` handed to effectRequest
effectImmediate(immediate) == Nullish(immediate, "true")

NoEffect == [e |-> 0, handler |-> "none", immediate |-> "false",
             w |-> CHOOSE w \in WatchConfigs : w.watching = -1]

\* mutant: the effect is registered in a server-rendering context too
effectRequestAlways(ssr, e, immediate, w) ==
  [e |-> e, handler |-> IF hasWatchingStates(w) THEN "debounce" ELSE "plain",
   immediate |-> effectImmediate(immediate), w |-> w]

\* `if (!isSSR) effectRequest({handler, ..., watchingStates, immediate})`: the
\* registration the host holds after entry e
effectRequest(ssr, e, immediate, w) ==
  IF ssr
    THEN effect
    ELSE [e |-> e,
          handler |-> IF hasWatchingStates(w) THEN "debounce" ELSE "plain",
          immediate |-> effectImmediate(immediate),
          w |-> w]

Entries == 1..MaxCalls
\* a settled attempt keeps its outcome only
NoAttempt == [st |-> "idle", via |-> "none", key |-> "undefined",
              caught |-> FALSE, args |-> "undefined"]

Init ==
  /\ isSSR \in BOOLEAN
  /\ now = 0
  /\ cache = [k \in Keys |-> NoEntry]
  /\ hook = createHook
  /\ fs = <<>>
  /\ effect = NoEffect
  /\ mounted = FALSE
  /\ timer = <<>>
  /\ pending = {}
  /\ att = <<>>
  /\ nCalls = 0
  /\ op = NoOp

(***************************************************************************)
(* One orchestration entry: the body of createRequestState.  The host      *)
(* re-enters only after it has run the effects of the previous entry.      *)
(***************************************************************************)
createRequestState(immArg, force, w) ==
  /\ nCalls < MaxCalls
  /\ nEntries > 0 => (isSSR \/ mounted)
  /\ LET e == nEntries + 1
         immediate == defaultImmediate(immArg)
         cachedResponse == IF Truthy(immediate)
                             THEN getResponseCache(cache, MethodKey, now)
                             ELSE "undefined"
         hookInstance == refCurrent(hook, nEntries)
     IN  /\ cache' = IF Truthy(immediate)
                       THEN cacheAfterGet(cache, MethodKey, now)
                       ELSE cache
         /\ fs' = Append(fs,
                     [data |-> InitialData,
                      loading |-> initialLoading(immediate, force, cachedResponse),
                      error |-> "undefined"])
         /\ timer' = Append(timer, 0)
         /\ hook' = resetHook(hookInstance, e)
         /\ effect' = effectRequest(isSSR, e, immediate, w)
         /\ nCalls' = nCalls + 1
         /\ op' = [Op("enter", e) EXCEPT !.immArg = immArg, !.force = force]
  /\ UNCHANGED <<isSSR, now, mounted, pending, att>>

(***************************************************************************)
(* Handler registration: onSuccess / onError / onComplete push onto the    *)
(* lists of the ExecutionContext.  A handler carries a fresh id, the entry  *)
(* during which it was registered, the operation that registered it and    *)
(* whether it throws when it is called.                                    *)
(***************************************************************************)
\* mutant: a success handler is put in front of the list
pushSuccessFront(h, fn) == [h EXCEPT !.sh = <<fn>> \o @]

\* mutant: an error handler is put in the success list
pushErrorAsSuccess(h, fn) == [h EXCEPT !.sh = Append(@, fn)]

pushSuccess(h, fn) == [h EXCEPT !.sh = Append(@, fn)]
pushError(h, fn) == [h EXCEPT !.eh = Append(@, fn)]
pushComplete(h, fn) == [h EXCEPT !.ch = Append(@, fn)]

NewHandler(kind, throws) ==
  [id |-> Len(hook.sh) + Len(hook.eh) + Len(hook.ch) + 1,
   epoch |-> nEntries, kind |-> kind, throws |-> throws]

Register(kind, pushed) ==
  /\ nEntries > 0
  /\ nCalls < MaxCalls
  /\ nCalls' = nCalls + 1
  /\ hook' = pushed
  /\ op' = Op(kind, NewHandler(kind, FALSE).id)
  /\ UNCHANGED <<isSSR, now, cache, fs, effect, mounted, timer, pending, att>>

onSuccess(throws) ==
  Register("onSuccess", pushSuccess(hook, NewHandler("onSuccess", throws)))
onError(throws) ==
  Register("onError", pushError(hook, NewHandler("onError", throws)))
onComplete(throws) ==
  Register("onComplete", pushComplete(hook, NewHandler("onComplete", throws)))

(***************************************************************************)
(* One request attempt (useHookToSendRequest).  Suspension points are the  *)
(* transport call and an asynchronous response transform.                  *)
(***************************************************************************)
InFlight(a) == a # 0 /\ att[a].st \in {"loading", "transforming"}
Terminal == {"resolved", "rejected", "aborted"}

\* mutant: a throwing handler ends the dispatch of its list
DispatchUntilThrow(list, kind, arg) ==
  LET n == IF \E i \in DOMAIN list : list[i].throws
             THEN CHOOSE i \in DOMAIN list :
                    list[i].throws /\ \A j \in 1..(i - 1) : ~list[j].throws
             ELSE Len(list)
  IN  [i \in 1..n |-> [k |-> kind, h |-> list[i], arg |-> arg,
                       threw |-> list[i].throws]]

\* the invocations of one handler list, in list order; a handler that throws
\* does not end the dispatch
Dispatch(list, kind, arg) ==
  [i \in 1..Len(list) |-> [k |-> kind, h |-> list[i], arg |-> arg,
                           threw |-> list[i].throws]]

\* start of an attempt: loading becomes true on the active handle set, the
\* abort capability of the context is bound to the attempt
useHookToSendRequest(k, via, caught, sendCallingArgs) ==
  /\ nAtt < MaxAttempts
  /\ att' = Append(att, [st |-> "loading", via |-> via, key |-> k,
                         caught |-> caught, args |-> sendCallingArgs])
  /\ fs' = [fs EXCEPT ![hook.fs].loading = TRUE]
  /\ hook' = [hook EXCEPT !.ar = nAtt + 1]

\* handleRequest: the method defaults to the usage site's methodHandler
handleRequest(methodKey, via, caught, sendCallingArgs) ==
  useHookToSendRequest(IF methodKey = "undefined" THEN MethodKey ELSE methodKey,
                       via, caught, sendCallingArgs)

\* wrapEffectRequest: handleRequest() with the rejection caught
\* mutant: the rejection of handleRequest() is not caught
wrapEffectRequestUncaught == handleRequest("undefined", "effect", FALSE, "undefined")

wrapEffectRequest == handleRequest("undefined", "effect", TRUE, "undefined")

\* success: value into the active handle set and the cache, success handlers,
\* then completion handlers, the promise resolves
Succeed(a, v, name) ==
  /\ fs' = [fs EXCEPT ![hook.fs] = [@ EXCEPT !.data = v, !.loading = FALSE]]
  /\ cache' = setResponseCache(cache, att[a].key, v, MethodTTL(att[a].key), now)
  /\ att' = [att EXCEPT ![a] = [NoAttempt EXCEPT !.st = "resolved"]]
  /\ op' = [Op(name, a) EXCEPT !.from = att[a].st,
                               !.calls = Dispatch(hook.sh, "success", v)
                                         \o Dispatch(hook.ch, "complete", v),
                               !.settle = [kind |-> "resolve", val |-> v,
                                           caught |-> att[a].caught]]

\* failure: error into the active handle set, error handlers, then completion
\* handlers, the promise rejects
Fail(a, err, st, name) ==
  /\ fs' = [fs EXCEPT ![hook.fs] = [@ EXCEPT !.error = err, !.loading = FALSE]]
  /\ cache' = cache
  /\ att' = [att EXCEPT ![a] = [NoAttempt EXCEPT !.st = st]]
  /\ op' = [Op(name, a) EXCEPT !.from = att[a].st,
                               !.calls = Dispatch(hook.eh, "error", err)
                                         \o Dispatch(hook.ch, "complete", err),
                               !.settle = [kind |-> "reject", val |-> err,
                                           caught |-> att[a].caught]]

TransportFail(a) ==
  /\ att[a].st = "loading"
  /\ Fail(a, TransportError, "rejected", "transportFail")
  /\ UNCHANGED <<isSSR, now, hook, effect, mounted, timer, pending, nCalls>>

\* the transport answers; the transform returns a value, throws, or returns a
\* promise (settled later)
TransportOk(a) ==
  /\ att[a].st = "loading"
  /\ \/ \E v \in ResponseVals : Succeed(a, v, "transformSync")
     \/ Fail(a, TransformError, "rejected", "transformThrow")
     \/ /\ att' = [att EXCEPT ![a].st = "transforming"]
        /\ op' = Op("transformAsync", a)
        /\ UNCHANGED <<fs, cache>>
  /\ UNCHANGED <<isSSR, now, hook, effect, mounted, timer, pending, nCalls>>

TransformSettle(a) ==
  /\ att[a].st = "transforming"
  /\ \/ \E v \in ResponseVals : Succeed(a, v, "transformResolve")
     \/ Fail(a, TransformError, "rejected", "transformReject")
  /\ UNCHANGED <<isSSR, now, hook, effect, mounted, timer, pending, nCalls>>

(***************************************************************************)
(* Public operations: send, abort, update.                                 *)
(***************************************************************************)
\* send(sendCallingArgs, methodInstance); methodKey = "undefined": no override,
\* sendCallingArgs = "undefined": no call arguments
send(methodKey, sendCallingArgs) ==
  /\ nEntries > 0
  /\ nCalls < MaxCalls
  /\ nAtt + Cardinality(pending) < MaxAttempts
  /\ nCalls' = nCalls + 1
  /\ handleRequest(methodKey, "send", FALSE, sendCallingArgs)
  /\ op' = Op("send", nAtt + 1)
  /\ UNCHANGED <<isSSR, now, cache, effect, mounted, timer, pending>>

\* the attempt hookInstance.ar is bound to (0: the initial no-op)
\* mutant: abort stays bound to the first attempt
abortTargetFirst(h) == IF h.ar = 0 THEN 0 ELSE 1

\* mutant: abort is bound to no attempt
abortTargetNone(h) == 0

abortTarget(h) == h.ar

abort ==
  /\ nEntries > 0
  /\ LET a == abortTarget(hook)
     IN  IF InFlight(a)
           THEN Fail(a, AbortError, "aborted", "abort")
           ELSE UNCHANGED <<fs, cache, att>> /\ op' = Op("abort", 0)
  /\ UNCHANGED <<isSSR, now, hook, effect, mounted, timer, pending, nCalls>>

Patches == { {<<"loading", TRUE>>}, {<<"loading", FALSE>>},
             {<<"fetching", TRUE>>}, {<<"fetching", FALSE>>} }
HasKey(p, k) == \E kv \in p : kv[1] = k
Get(p, k) == (CHOOSE kv \in p : kv[1] = k)[2]

\* the patch update() hands to the host: a truthy `fetching` is moved to
\* `loading`
translatePatch(p) ==
  IF HasKey(p, "fetching") /\ Get(p, "fetching")
    THEN {kv \in p : kv[1] \notin {"fetching", "loading"}}
         \cup {<<"loading", Get(p, "fetching")>>}
    ELSE p

\* the host's update primitive: the patch's keys are written to the handles
hostUpdate(f, p, e) ==
  IF HasKey(p, "loading") THEN [f EXCEPT ![e].loading = Get(p, "loading")]
                          ELSE f

\* update of entry e (memoized, so an earlier entry's update may be called)
\* applies to the frontStates of entry e's closure
update(e, p) ==
  /\ e \in 1..nEntries
  /\ nCalls < MaxCalls
  /\ nCalls' = nCalls + 1
  /\ fs' = hostUpdate(fs, translatePatch(p), e)
  /\ op' = [Op("update", e) EXCEPT !.p = p, !.hp = translatePatch(p)]
  /\ UNCHANGED <<isSSR, now, cache, hook, effect, mounted, timer, pending, att>>

(***************************************************************************)
(* The effect handler: the debounce wrapper around wrapEffectRequest when  *)
(* watched inputs are supplied, wrapEffectRequest itself otherwise.        *)
(***************************************************************************)
\* the delay resolver handed to debounce; idx = -1: no changed index.
\* def = FALSE: the table has no entry at the index (undefined)
delayResolver(w, idx) ==
  IF idx # -1
    THEN IF w.kind = "table"
           THEN IF idx + 1 <= Len(w.tbl)
                  THEN [def |-> TRUE, ms |-> w.tbl[idx + 1]]
                  ELSE [def |-> FALSE, ms |-> 0]
           ELSE [def |-> TRUE, ms |-> w.d]
    ELSE [def |-> TRUE, ms |-> 0]

\* clearTimeout(timer) of entry e's debounce closure
clearTimer(e) == {t \in pending : t.id # timer[e]}

\* a trigger arrives: the timers still pending afterwards are superseded
Superseded(ts) == {[t EXCEPT !.superseded = TRUE] : t \in ts}

\* one call of entry e's debounce wrapper: the closure's pending timer is
\* cleared; a positive delay sets a new timer, otherwise the function runs now
debounce(e, w, idx, trig) ==
  LET dl == delayResolver(w, idx)
  IN  IF dl.def /\ dl.ms > 0
        THEN /\ pending' = Superseded(clearTimer(e))
                             \cup {[id |-> trig, e |-> e, setAt |-> now,
                                    fireAt |-> now + dl.ms,
                                    superseded |-> FALSE]}
             /\ timer' = [timer EXCEPT ![e] = trig]
             /\ UNCHANGED <<att, fs, hook>>
        ELSE /\ pending' = Superseded(clearTimer(e))
             /\ timer' = timer
             /\ wrapEffectRequest

\* the delay a call of the registered handler with changed index idx waits
appliedDelay(idx) ==
  IF effect.handler = "debounce" THEN delayResolver(effect.w, idx) ELSE NoDelay

\* the host calls the handler it was handed by the latest effectRequest
effectHandler(idx, trig) ==
  IF effect.handler = "debounce"
    THEN debounce(effect.e, effect.w, idx, trig)
    ELSE wrapEffectRequest /\ UNCHANGED <<timer, pending>>

\* the host runs the effect of the first entry: the handler is called without
\* a changed index when the effect was registered with a true `immediate`
Mount ==
  /\ ~isSSR
  /\ nEntries > 0
  /\ ~mounted
  /\ mounted' = TRUE
  /\ IF Truthy(effect.immediate)
       THEN effectHandler(-1, 0)
            /\ op' = [Op("immediate", nAtt + 1) EXCEPT !.dl = appliedDelay(-1)]
       ELSE UNCHANGED <<att, fs, hook, timer, pending>>
            /\ op' = Op("mount", 0)
  /\ UNCHANGED <<isSSR, now, cache, effect, nCalls>>

\* watched input i changes: the host calls the handler with the changed index
watchTrigger(i) ==
  /\ mounted
  /\ i \in 0..(effect.w.watching - 1)
  /\ nCalls < MaxCalls
  /\ nAtt + Cardinality(pending) < MaxAttempts
  /\ nCalls' = nCalls + 1
  /\ effectHandler(i, nCalls + 1)
  /\ op' = [Op("trigger", nCalls + 1) EXCEPT !.idx = i, !.dl = appliedDelay(i)]
  /\ UNCHANGED <<isSSR, now, cache, effect, mounted>>

\* a timer set by a debounce closure fires: the wrapped function runs
timerFire(t) ==
  /\ t \in pending
  /\ t.fireAt <= now
  /\ pending' = pending \ {t}
  /\ wrapEffectRequest
  /\ op' = Op("fire", t.id)
  /\ UNCHANGED <<isSSR, now, cache, effect, mounted, timer, nCalls>>

\* something waits for the clock: a timer, or a cache entry that will expire
ClockObserved ==
  \/ pending # {}
  \/ \E k \in Keys : cache[k].present /\ cache[k].exp # Never /\ cache[k].exp > now

\* time passes; a due timer fires before the clock moves on
Tick ==
  /\ now < MaxTime
  /\ ClockObserved
  /\ \A t \in pending : t.fireAt > now
  /\ now' = now + 1
  /\ op' = Op("tick", 0)
  /\ UNCHANGED <<isSSR, cache, hook, fs, effect, mounted, timer, pending, att,
                 nCalls>>

\* a collaborator adds a state-removal and a state-saving callback to the
\* context's rf and sf lists
registerStateFns ==
  /\ nEntries > 0
  /\ nCalls < MaxCalls
  /\ nCalls' = nCalls + 1
  /\ hook' = [hook EXCEPT !.rf = Append(@, Len(@) + 1),
                          !.sf = Append(@, Len(@) + 1)]
  /\ op' = Op("stateFns", Len(hook.rf) + 1)
  /\ UNCHANGED <<isSSR, now, cache, fs, effect, mounted, timer, pending, att>>

NoWatch == CHOOSE w \in WatchConfigs : w.watching = -1

Transport ==
  \/ \E a \in 1..nAtt : TransportFail(a)
  \/ \E a \in 1..nAtt : TransportOk(a)
  \/ \E a \in 1..nAtt : TransformSettle(a)

(***************************************************************************)
(* Specifications.  Each one lets the caller and the host use the          *)
(* operations of one area, with every argument of those operations drawn   *)
(* from its whole domain, and the request attempts run underneath.         *)
(***************************************************************************)
\* entries with every immediate / force argument, the attempts that fill the
\* cache, and the clock that expires it
NextEntry ==
  \/ \E immArg \in ImmediateArgs, force \in ForceArgs :
        createRequestState(immArg, force, NoWatch)
  \/ Mount
  \/ send("undefined", "undefined")
  \/ Transport
  \/ Tick

SpecEntry == Init /\ [][NextEntry]_vars

\* handler registration and dispatch across entries
NextHandlers ==
  \/ \E immArg \in {"true", "false"} :
        createRequestState(immArg, "undefined", NoWatch)
  \/ onSuccess(FALSE)
  \/ onError(FALSE)
  \/ onComplete(FALSE)
  \/ registerStateFns
  \/ Mount
  \/ send("undefined", "undefined")
  \/ Transport

SpecHandlers == Init /\ [][NextHandlers]_vars

\* attempts, abort and update
NextAttempt ==
  \/ \E immArg \in {"true", "false"} :
        createRequestState(immArg, "undefined", NoWatch)
  \/ Mount
  \/ \E k \in {"undefined", "K2"} : send(k, "undefined")
  \/ abort
  \/ \E e \in Entries, p \in Patches : update(e, p)
  \/ Transport

SpecAttempt == Init /\ [][NextAttempt]_vars

\* the attempt area under the assumption that transport and transform settle
LiveAttempt == SpecAttempt /\ WF_vars(Transport)

\* watched inputs, the debounce wrapper and its timers
\* abort next to success handlers and asynchronous transforms
NextAbort ==
  \/ createRequestState("true", "undefined", NoWatch)
  \/ onSuccess(FALSE)
  \/ Mount
  \/ send("undefined", "undefined")
  \/ abort
  \/ Transport
SpecAbort == Init /\ [][NextAbort]_vars

\* handler dispatch with handlers that may throw
NextDispatch ==
  \/ createRequestState("true", "undefined", NoWatch)
  \/ \E throws \in BOOLEAN : onSuccess(throws)
  \/ \E throws \in BOOLEAN : onError(throws)
  \/ \E throws \in BOOLEAN : onComplete(throws)
  \/ Mount
  \/ send("undefined", "undefined")
  \/ Transport
SpecDispatch == Init /\ [][NextDispatch]_vars

\* the effect path next to direct sends, with failing transports only
NextEffect ==
  \/ \E immArg \in {"true", "false"}, w \in WatchConfigs :
       createRequestState(immArg, "undefined", w)
  \/ onError(FALSE)
  \/ onComplete(FALSE)
  \/ Mount
  \/ \E i \in 0..1 : watchTrigger(i)
  \/ \E t \in pending : timerFire(t)
  \/ Tick
  \/ send("undefined", "args")
  \/ \E a \in 1..nAtt : TransportFail(a)
SpecEffect == Init /\ [][NextEffect]_vars

NextDebounce ==
  \/ \E immArg \in {"true", "false"}, w \in WatchConfigs :
        createRequestState(immArg, "undefined", w)
  \/ Mount
  \/ \E i \in 0..1 : watchTrigger(i)
  \/ \E t \in pending : timerFire(t)
  \/ Tick
  \/ Transport

SpecDebounce == Init /\ [][NextDebounce]_vars

(***************************************************************************)
(* Properties.                                                             *)
(***************************************************************************)
\* the force setting of the last entry resolves to true / is absent or false
ForceOn(f) == sloughConfig(f) = "true"
\* a present, unexpired cache entry exists for the method's key
CachePresent == cache[MethodKey].present /\ ~Expired(cache[MethodKey], now)
\* the state handle set of the current entry
Current == fs[nEntries]

\* C1: after an entry with immediate = true and no force flag, loading is
\* true when the cache has no entry for the method's key and false whenever a
\* present, unexpired entry exists, whatever the cached value is.
C1_InitialLoadingFollowsCache ==
  (op.name = "enter" /\ op.immArg = "true" /\ ~ForceOn(op.force))
    => (Current.loading = ~CachePresent)

\* C2 as stated: after every entry with a force setting that resolves to
\* true, loading is true, whatever the cache holds.
C2_ForceAlwaysLoading ==
  (op.name = "enter" /\ ForceOn(op.force)) => Current.loading = TRUE

\* C2 amended: after every entry that fires immediately and whose force
\* setting (a literal or a function) resolves to true, loading is true,
\* whatever the cache holds.
C2_ImmediateForceLoading ==
  (op.name = "enter" /\ op.immArg = "true" /\ ForceOn(op.force))
    => Current.loading = TRUE

\* an immediate entry with a force function resolving to true found a present,
\* truthy cache entry and starts loading
C2_Witness ==
  /\ op.name = "enter" /\ op.immArg = "true" /\ op.force = "fnTrue"
  /\ CachePresent /\ Truthy(cache[MethodKey].val)
  /\ Current.loading = TRUE

\* C8 as stated: an entry that does not specify `immediate` registers its
\* effect with immediate = true and computes loading by the immediate rule.
C8_DefaultImmediateTrue ==
  (op.name = "enter" /\ op.immArg = "undefined")
    => /\ ~isSSR => effect.immediate = "true"
       /\ Current.loading = (ForceOn(op.force) \/ ~CachePresent)

\* C8 amended: an entry that does not specify `immediate` behaves as
\* immediate = false: its effect is registered with immediate = false and
\* loading starts false, whatever the force setting and the cache are.
C8_DefaultImmediateFalse ==
  (op.name = "enter" /\ op.immArg = "undefined")
    => /\ ~isSSR => effect.immediate = "false"
       /\ Current.loading = FALSE

\* an entry without `immediate`, with force = true and an empty cache
C8_Witness ==
  /\ op.name = "enter" /\ op.immArg = "undefined" /\ op.force = "true"
  /\ ~isSSR /\ ~CachePresent
  /\ effect.e = nEntries /\ effect.immediate = "false"
  /\ Current.loading = FALSE

\* the handlers held by the callback lists of a context
Registered(h) == {h.sh[i] : i \in DOMAIN h.sh} \cup {h.eh[i] : i \in DOMAIN h.eh}
                   \cup {h.ch[i] : i \in DOMAIN h.ch}
\* the positions at which a dispatch sequence invokes a handler
CallsOf(c, hd) == {i \in DOMAIN c : c[i].h = hd}
\* every handler registered through `reg` is invoked exactly once, as `kind`,
\* with the argument `arg`
InvokedOnce(c, reg, kind, arg) ==
  \A hd \in Registered(hook) : hd.kind = reg =>
    /\ Cardinality(CallsOf(c, hd)) = 1
    /\ \A i \in CallsOf(c, hd) : c[i].k = kind /\ c[i].arg = arg
\* all invocations of kind k1 come before all invocations of kind k2
Before(c, k1, k2) == \A i, j \in DOMAIN c : (c[i].k = k1 /\ c[j].k = k2) => i < j
\* handlers of one kind are invoked in their registration order
InRegistrationOrder(c, kind) ==
  \A i, j \in DOMAIN c : (c[i].k = kind /\ c[j].k = kind /\ i < j) => c[i].h.id < c[j].h.id

\* C3: when the transform throws or its promise rejects with e, the step
\* writes e to the error handle, invokes every handler registered by onError
\* exactly once with e, then every handler registered by onComplete exactly
\* once, rejects the attempt's promise with e, and leaves data as it was;
\* no step other than a successful settlement writes a data handle, so data
\* is what it was before the attempt unless another attempt succeeded.
C3_TransformErrorPath ==
  [][/\ op'.name \in {"transformThrow", "transformReject"} =>
          /\ fs'[nEntries].error = TransformError
          /\ InvokedOnce(op'.calls, "onError", "error", TransformError)
          /\ InvokedOnce(op'.calls, "onComplete", "complete", TransformError)
          /\ \A i \in DOMAIN op'.calls : op'.calls[i].k \in {"error", "complete"}
          /\ Before(op'.calls, "error", "complete")
          /\ op'.settle.kind = "reject" /\ op'.settle.val = TransformError
          /\ fs'[nEntries].data = fs[nEntries].data
     /\ op'.name \notin {"transformSync", "transformResolve"} =>
          \A e \in DOMAIN fs : fs'[e].data = fs[e].data]_vars

\* a rejected transform of a send attempt ran one error handler and then one
\* completion handler, and data still holds its initial value
C3_Witness ==
  /\ op.name = "transformReject" /\ ~op.settle.caught
  /\ Len(op.calls) = 2 /\ op.calls[1].k = "error" /\ op.calls[2].k = "complete"
  /\ op.calls[1].h.kind = "onError" /\ op.calls[2].h.kind = "onComplete"
  /\ Current.error = TransformError /\ Current.data = InitialData

\* C5: when an attempt succeeds with v, the step writes v to the data handle
\* and to the cache, then invokes the success handlers in registration order,
\* then the completion handlers in registration order, and resolves the
\* attempt's promise with v.
C5_SuccessPath ==
  [][op'.name \in {"transformSync", "transformResolve"} =>
       LET v == op'.settle.val
           k == att[op'.a].key
       IN  /\ op'.settle.kind = "resolve" /\ v \in ResponseVals
           /\ fs'[nEntries].data = v
           /\ MethodTTL(k) # 0 =>
                (cache'[k].present /\ cache'[k].val = v /\ ~Expired(cache'[k], now))
           /\ InvokedOnce(op'.calls, "onSuccess", "success", v)
           /\ InvokedOnce(op'.calls, "onComplete", "complete", v)
           /\ \A i \in DOMAIN op'.calls : op'.calls[i].k \in {"success", "complete"}
           /\ Before(op'.calls, "success", "complete")
           /\ InRegistrationOrder(op'.calls, "success")
           /\ InRegistrationOrder(op'.calls, "complete")]_vars

\* a resolved transform ran two success handlers in the order they were
\* registered and then a completion handler, with data and cache holding v
C5_Witness ==
  /\ op.name = "transformResolve" /\ op.settle.kind = "resolve"
  /\ Len(op.calls) = 3
  /\ op.calls[1].k = "success" /\ op.calls[2].k = "success" /\ op.calls[3].k = "complete"
  /\ op.calls[1].h.id < op.calls[2].h.id
  /\ Current.data = op.settle.val
  /\ cache[MethodKey].present /\ cache[MethodKey].val = op.settle.val

Outstanding(as) == {a \in DOMAIN as : as[a].st \in {"loading", "transforming"}}

C7_FiveListsReset ==
  op.name = "enter" =>
    /\ hook.sh = <<>> /\ hook.eh = <<>> /\ hook.ch = <<>>
    /\ hook.rf = <<>> /\ hook.sf = <<>>
    /\ hook.fs = nEntries /\ hook.c = nEntries

\* C7 amended: every entry empties the success, error and completion handler
\* lists and rebinds the frontStates and config references to the entry's
\* values; the state-remove and state-save lists are left as they were.
C7_HandlerListsReset ==
  [][op'.name = "enter" =>
       /\ hook'.sh = <<>> /\ hook'.eh = <<>> /\ hook'.ch = <<>>
       /\ hook'.fs = Len(fs') /\ hook'.c = Len(fs')
       /\ hook'.rf = hook.rf /\ hook'.sf = hook.sf
       /\ hook'.ar = hook.ar]_vars

\* a second entry, made after one state-function pair and one handler were
\* registered during the first: the handler lists are empty again, the
\* state-function lists still hold the pair
C7_Witness ==
  /\ op.name = "enter" /\ nEntries = 2 /\ nCalls = 4 /\ att = <<>>
  /\ Len(hook.rf) = 1 /\ Len(hook.sf) = 1
  /\ hook.sh = <<>> /\ hook.eh = <<>> /\ hook.ch = <<>>
  /\ hook.fs = 2 /\ hook.c = 2

\* C9: update with a patch holding fetching = b hands the host a patch in
\* which the key is loading, with the same value b, for both values of b.
C9_FetchingTranslated ==
  (op.name = "update" /\ HasKey(op.p, "fetching")) =>
    /\ ~HasKey(op.hp, "fetching")
    /\ HasKey(op.hp, "loading")
    /\ Get(op.hp, "loading") = Get(op.p, "fetching")

\* C10: at most one debounce timer is pending at any time, and no pending
\* timer belongs to a trigger that a later trigger has superseded.
C10_OneTimerPending ==
  /\ Cardinality(pending) <= 1
  /\ \A t \in pending : ~t.superseded

\* C11: a call of the debounced handler waits a delay that is a number of
\* milliseconds: 0 without a changed index, the configured number for every
\* changed index when the setting is one number, and the table entry at the
\* changed index when the setting is a table.
C11_DelayIsNumber ==
  (op.name \in {"immediate", "trigger"} /\ effect.handler = "debounce") =>
    /\ op.dl.def
    /\ op.idx = -1 => op.dl.ms = 0
    /\ (op.idx # -1 /\ effect.w.kind = "scalar") => op.dl.ms = effect.w.d
    /\ (op.idx # -1 /\ effect.w.kind = "table" /\ op.idx + 1 <= Len(effect.w.tbl))
         => op.dl.ms = effect.w.tbl[op.idx + 1]

\* C12: the handler an entry registers with the host is the debounce wrapper
\* exactly when watched inputs were supplied (an empty sequence included) and
\* the plain error-suppressing sender otherwise; a call of the plain sender
\* starts exactly one attempt, for the orchestration's own method, without
\* call arguments, and sets no timer.
C12_HandlerKind ==
  [][/\ (op'.name = "enter" /\ ~isSSR) =>
          /\ effect'.e = Len(fs')
          /\ effect'.handler = "debounce" <=> effect'.w.watching >= 0
          /\ effect'.handler = "plain" <=> effect'.w.watching = -1
     /\ (op'.name \in {"immediate", "trigger"} /\ effect.handler = "plain") =>
          /\ Len(att') = nAtt + 1
          /\ att'[nAtt + 1] = [st |-> "loading", via |-> "effect", key |-> MethodKey,
                               caught |-> TRUE, args |-> "undefined"]
          /\ pending' = pending]_vars

\* the immediate trigger of an entry without watched inputs started the one
\* attempt there is, for the own method and without call arguments
C12_Witness ==
  /\ op.name = "immediate" /\ effect.handler = "plain" /\ effect.w.watching = -1
  /\ nAtt = 1 /\ att[1].st = "loading" /\ att[1].via = "effect"
  /\ att[1].key = MethodKey /\ att[1].args = "undefined"
  /\ pending = {}

\* C13: an attempt started by the effect trigger (immediate, watched input or
\* debounce timer) has its rejection caught, an attempt started by send does
\* not; when either fails with e, e is written to the error handle, every
\* error handler and then every completion handler is invoked with e, and the
\* promise rejects with e - towards the caller for send, caught for the effect.
C13_RejectionAsymmetry ==
  [][/\ (op'.name \in {"immediate", "trigger", "fire"} /\ Len(att') > nAtt) =>
          (att'[Len(att')].via = "effect" /\ att'[Len(att')].caught)
     /\ op'.name = "send" =>
          (att'[Len(att')].via = "send" /\ ~att'[Len(att')].caught)
     /\ op'.settle.kind = "reject" =>
          /\ fs'[nEntries].error = op'.settle.val
          /\ InvokedOnce(op'.calls, "onError", "error", op'.settle.val)
          /\ InvokedOnce(op'.calls, "onComplete", "complete", op'.settle.val)
          /\ Before(op'.calls, "error", "complete")
          /\ att[op'.a].via = "effect" => op'.settle.caught
          /\ att[op'.a].via = "send" => ~op'.settle.caught]_vars

\* an attempt started by a debounce timer failed: the rejection was caught,
\* the error is in the error handle and went to an error handler and then to
\* a completion handler
C13_Witness ==
  /\ op.name = "transportFail" /\ op.settle.kind = "reject" /\ op.settle.caught
  /\ now > 0 /\ nAtt = 1
  /\ Len(op.calls) = 2 /\ op.calls[1].k = "error" /\ op.calls[2].k = "complete"
  /\ Current.error = TransportError

\* C14: in a server-rendering context an entry registers no effect and starts
\* no attempt, so the host never runs an effect and every attempt there comes
\* from send; the entry still creates its state handles, with the initial data
\* and the loading value computed from immediate, force and the cache.
C14_NoEffectInSSR ==
  [][isSSR =>
       /\ effect' = NoEffect /\ ~mounted' /\ pending' = {}
       /\ Len(att') > nAtt => op'.name = "send"
       /\ op'.name = "enter" =>
            /\ att' = att
            /\ Len(fs') = nEntries + 1
            /\ fs'[nEntries + 1].data = InitialData
            /\ fs'[nEntries + 1].error = "undefined"
            /\ fs'[nEntries + 1].loading =
                 (op'.immArg = "true"
                    /\ (ForceOn(op'.force)
                          \/ ~Truthy(getResponseCache(cache, MethodKey, now))))
            /\ hook'.fs = nEntries + 1]_vars

\* server rendering: a send made after the first entry succeeded and filled
\* the cache; the second, immediate entry starts with loading false, no effect
\* is registered and the send is the only attempt
C14_Witness ==
  /\ isSSR /\ op.name = "enter" /\ op.immArg = "true" /\ nEntries = 2
  /\ effect = NoEffect /\ ~mounted
  /\ nAtt = 1 /\ att[1].st = "resolved"
  /\ CachePresent /\ Current.loading = FALSE /\ Current.data = InitialData

\* C15: a successful attempt for a key with TTL t > 0 stores an entry that
\* expires t later; an immediate entry reading the key before that finds the
\* entry, keeps it and, without force, starts with loading false; an immediate
\* entry reading it once t has elapsed finds nothing, leaves no entry behind
\* and starts with loading true.
C15_CacheWithinTTL ==
  [][/\ (op'.settle.kind = "resolve" /\ MethodTTL(att[op'.a].key) > 0) =>
          /\ cache'[att[op'.a].key].present
          /\ cache'[att[op'.a].key].exp = now + MethodTTL(att[op'.a].key)
     /\ (op'.name = "enter" /\ op'.immArg = "true") =>
          IF cache[MethodKey].present /\ now < cache[MethodKey].exp
            THEN /\ cache'[MethodKey] = cache[MethodKey]
                 /\ ~ForceOn(op'.force) => fs'[nEntries + 1].loading = FALSE
            ELSE /\ ~cache'[MethodKey].present
                 /\ fs'[nEntries + 1].loading = TRUE]_vars

\* the handlers of one kind that an attempt's settlement has to invoke
Due(h, k) == CASE k = "success" -> h.sh [] k = "error" -> h.eh [] OTHER -> h.ch

C17_HandlersAcrossEntries ==
  [][/\ op'.name = "enter" => Registered(hook') = {}
     /\ \A hd \in Registered(hook') : hd.epoch = Len(fs')
     /\ op'.name \in {"onSuccess", "onError", "onComplete"} =>
          /\ \E hd \in Registered(hook') \ Registered(hook) :
               /\ hd.kind = op'.name /\ hd.epoch = nEntries
               /\ Registered(hook') = Registered(hook) \cup {hd}
          /\ op'.calls = <<>> /\ att' = att
     /\ op'.calls # <<>> =>
          /\ InFlight(op'.a) /\ att'[op'.a].st \in Terminal
          /\ \A i \in DOMAIN op'.calls :
               op'.calls[i].h \in Registered(hook) /\ op'.calls[i].h.epoch = nEntries
     /\ op'.settle.kind = "resolve" =>
          InvokedOnce(op'.calls, "onSuccess", "success", op'.settle.val)
     /\ op'.settle.kind = "reject" =>
          InvokedOnce(op'.calls, "onError", "error", op'.settle.val)
     /\ op'.settle.kind # "none" =>
          InvokedOnce(op'.calls, "onComplete", "complete", op'.settle.val)]_vars

\* the immediate attempt of the first entry settles after a second entry: of
\* the two handlers registered, one during each entry, only the one of the
\* second entry is invoked
C17_Witness ==
  /\ op.settle.kind # "none" /\ op.settle.caught
  /\ nEntries = 2 /\ nCalls = 4 /\ nAtt = 1 /\ hook.rf = <<>>
  /\ Cardinality(Registered(hook)) = 1
  /\ Len(op.calls) = 1 /\ op.calls[1].h.epoch = 2

\* C18: an entry with immediate = false starts with loading false, whatever
\* the cache holds and whatever the force setting is, and does not read the
\* cache: an expired entry is still there afterwards.
C18_NotImmediateNotLoading ==
  [][(op'.name = "enter" /\ op'.immArg = "false") =>
       /\ fs'[nEntries + 1].loading = FALSE
       /\ cache' = cache]_vars

\* an entry with immediate = false and force = true, made while the cache
\* holds an expired entry: loading is false and the entry was not evicted
C18_Witness ==
  /\ op.name = "enter" /\ op.immArg = "false" /\ op.force = "true"
  /\ cache[MethodKey].present /\ Expired(cache[MethodKey], now)
  /\ Current.loading = FALSE

C20_UpdateTargetsActive ==
  [][op'.name = "update" =>
       /\ hook' = hook /\ hook.fs = nEntries
       /\ \A e \in DOMAIN fs : e # hook.fs => fs'[e] = fs[e]
       /\ HasKey(op'.hp, "loading") => fs'[hook.fs].loading = Get(op'.hp, "loading")]_vars

====
